---- MODULE Spec2Model ----
(***************************************************************************)
(* Model of ton-liteserver-client's MasterchainFirstBlockTracker:          *)
(*   - the background actor (MasterchainFirstBlockTrackerActor::run),      *)
(*   - the public handle (MasterchainFirstBlockTracker) with its watch     *)
(*     channel and its cancellation DropGuard,                             *)
(*   - the binary-search finder find_first_block_header, whose source is   *)
(*     outside the tracker file and is modelled from the specification     *)
(*     (section 4.1), as a step machine with one step per remote probe,    *)
(*   - the remote server (chain head, pruning boundary) and the consumers  *)
(*     holding receivers.                                                  *)
(***************************************************************************)
EXTENDS Integers, FiniteSets

\* ------------------------------------------------------------------ bounds

\* Option::None for the seqno-valued options of the program.
None == 0 - 1

\* Subscribers that may hold a clone of the handle's receiver.
MaxSubs == 2
\* Publications explored: the cap on the channel's version counter.
MaxPubs == 2
\* The remote's pruning boundary ranges over 0..MaxBoundary.
MaxBoundary == 2
\* The smaller of the two chain heads the remote can be at.
SmallHead == 2
\* Largest anchor seqno of the finder-only specification.
MaxAnchor == 5

\* ------------------------------------------------------- program constants

\* current_seqno.map(|q| q + 32)
HintWindow == 32
\* Genesis seqno: the default low bound of the search.
GenesisSeqno == 0
\* Consecutive transient failures of one probe that abort a round.
MaxTransient == 3

Subs == 1..MaxSubs
Boundaries == 0..MaxBoundary
Heads == {SmallHead, SmallHead + HintWindow}

VARIABLES
    pc,                 \* actor position: "select", "sleep", "done", "panicked"
    last_block_id,      \* Option<seqno of the chain head the actor got>
    current_seqno,      \* Option<seqno of the last block the finder returned>
    chan_value,         \* value held by the watch channel (None or a header)
    chan_version,       \* version of the watch channel
    receiver,           \* the handle's receiver is alive
    cancellation_token, \* the token is cancelled (the DropGuard was dropped)
    subs,               \* per subscriber: None, or the version it has seen
    head,               \* remote: seqno of the newest block
    source_head,        \* chain-head source: the head it supplies
    boundary,           \* remote: lowest seqno not pruned
    f_phase,            \* finder: "idle","hint","search","final","ok","err"
    f_low, f_high,      \* finder: the hint arguments (None: no hint)
    lo, hi,             \* finder: working bounds
    tries,              \* finder: consecutive transient failures of the probe
    f_result,           \* finder: seqno of the header returned
    event,              \* history: the actor's latest handler
    last_ok,            \* history: header of the latest Ok round
    prev_ok,            \* history: header of the Ok round before the latest
    npub                \* history: number of successful sends

vars == <<pc, last_block_id, current_seqno, chan_value, chan_version, receiver,
          cancellation_token, subs, head, source_head, boundary, f_phase, f_low, f_high,
          lo, hi, tries, f_result, event, last_ok, prev_ok, npub>>

actorVars == <<pc, last_block_id, current_seqno, event>>
chanVars == <<chan_value, chan_version, last_ok, prev_ok, npub>>
handleVars == <<receiver, cancellation_token>>
remoteVars == <<head, source_head, boundary>>
finderVars == <<f_phase, f_low, f_high, lo, hi, tries, f_result>>

\* ------------------------------------------------------------------ remote

\* BlockLookup.get_header: a block is fetchable when it exists and is not pruned;
\* a missing block and a pruned block are the same NotFound/Pruned answer.
Fetch(seqno) ==
    IF boundary <= seqno /\ seqno <= head THEN "ok" ELSE "pruned"

\* --------------------------------------------- finder (find_first_block_header)

\* Step 3/4: the search goes on while hi - lo > 1, then hi is resolved and fetched.
SearchPhase(l, h) == IF h - l > 1 THEN "search" ELSE "final"

\* Step 1/2: lo defaults to genesis, hi to the anchor; a hint is probed first.
FinderBegin(anchor, low, high) ==
    /\ f_phase = "idle"
    /\ f_low' = low
    /\ f_high' = high
    /\ lo' = GenesisSeqno
    /\ hi' = anchor
    /\ tries' = 0
    /\ f_result' = None
    /\ f_phase' = IF high # None THEN "hint" ELSE SearchPhase(GenesisSeqno, anchor)

\* Step 2: the hint's high endpoint answered: fetchable narrows hi to it,
\* unfetchable makes the hint's low the new lo.
ProbeHint ==
    /\ pc = "select" /\ ~cancellation_token
    /\ f_phase = "hint"
    /\ IF Fetch(f_high) = "ok"
         THEN hi' = f_high /\ lo' = lo
         ELSE lo' = f_low /\ hi' = hi
    /\ f_phase' = SearchPhase(lo', hi')
    /\ tries' = 0
    /\ UNCHANGED <<f_low, f_high, f_result>>
    /\ UNCHANGED <<actorVars, chanVars, handleVars, remoteVars, subs>>

\* Step 3: the midpoint answered: success lowers hi, pruned raises lo.
Midpoint(l, h) == (l + h) \div 2

\* A midpoint probe that surfaces a pruned answer as the round's error.
ProbeMidPrunedFails ==
    /\ pc = "select" /\ ~cancellation_token
    /\ f_phase = "search"
    /\ IF Fetch(Midpoint(lo, hi)) = "ok"
         THEN hi' = Midpoint(lo, hi) /\ lo' = lo /\ f_phase' = SearchPhase(lo', hi')
         ELSE lo' = lo /\ hi' = hi /\ f_phase' = "err"
    /\ tries' = 0
    /\ UNCHANGED <<f_low, f_high, f_result>>
    /\ UNCHANGED <<actorVars, chanVars, handleVars, remoteVars, subs>>

ProbeMid ==
    /\ pc = "select" /\ ~cancellation_token
    /\ f_phase = "search"
    /\ IF Fetch(Midpoint(lo, hi)) = "ok"
         THEN hi' = Midpoint(lo, hi) /\ lo' = lo
         ELSE lo' = Midpoint(lo, hi) /\ hi' = hi
    /\ f_phase' = SearchPhase(lo', hi')
    /\ tries' = 0
    /\ UNCHANGED <<f_low, f_high, f_result>>
    /\ UNCHANGED <<actorVars, chanVars, handleVars, remoteVars, subs>>

\* Step 4/5: hi is resolved and its header fetched; the header is the result,
\* a block that is gone by now is an error of the round.
FetchFinal ==
    /\ pc = "select"
    /\ f_phase = "final"
    /\ IF Fetch(hi) = "ok"
         THEN f_phase' = "ok" /\ f_result' = hi
         ELSE f_phase' = "err" /\ f_result' = None
    /\ tries' = 0
    /\ UNCHANGED <<f_low, f_high, lo, hi>>
    /\ UNCHANGED <<actorVars, chanVars, handleVars, remoteVars, subs>>

\* Step 3: a transient failure of the probe in flight: retried, and the round
\* gives up with the error at the MaxTransient-th in a row; lo and hi stay.
ProbeTransient ==
    /\ pc = "select" /\ ~cancellation_token
    /\ f_phase \in {"hint", "search", "final"}
    /\ IF tries + 1 >= MaxTransient
         THEN f_phase' = "err" /\ tries' = 0
         ELSE f_phase' = f_phase /\ tries' = tries + 1
    /\ UNCHANGED <<f_low, f_high, lo, hi, f_result>>
    /\ UNCHANGED <<actorVars, chanVars, handleVars, remoteVars, subs>>

\* The round's future is dropped or consumed: the next round starts afresh.
FinderReset ==
    /\ f_phase' = "idle"
    /\ f_low' = None /\ f_high' = None
    /\ lo' = 0 /\ hi' = 0 /\ tries' = 0
    /\ f_result' = None

\* ------------------------------------------------------------ watch channel

\* Receivers of the channel that are alive: the handle's and the subscribers'.
ReceiverCount ==
    (IF receiver THEN 1 ELSE 0) + Cardinality({i \in Subs : subs[i] # None})

\* A send that notifies without storing the new value.
WatchSendValueKeepsOld(old, block) == old

\* watch::Sender::send stores the value ...
WatchSendValue(old, block) == block

\* A send that stores the value without bumping the version.
WatchSendVersionStale(version) == version

\* ... and bumps the version, which is what marks every receiver as changed.
WatchSendVersion(version) == version + 1

\* watch::Receiver::has_changed of subscriber i.
HasChanged(i) == subs[i] # None /\ subs[i] # chan_version

\* watch::Receiver::borrow: every receiver reads the one shared value.
Borrow(i) == chan_value

\* --------------------------------------- actor (MasterchainFirstBlockTrackerActor)

\* select! arm 1: the token is cancelled; log, break, the task ends.
Cancelled ==
    /\ pc = "select"
    /\ cancellation_token
    /\ pc' = "done"
    /\ event' = "cancelled"
    /\ FinderReset
    /\ UNCHANGED <<last_block_id, current_seqno>>
    /\ UNCHANGED <<chanVars, handleVars, remoteVars, subs>>

\* A wait arm without its `if last_block_id.is_none()` precondition.
WaitOkUnguarded ==
    /\ pc = "select"
    /\ last_block_id' = source_head
    /\ event' = "wait_ok"
    /\ UNCHANGED <<pc, current_seqno>>
    /\ UNCHANGED <<chanVars, handleVars, remoteVars, subs, finderVars>>

\* select! arm 2, Ok: the chain head the source supplies is remembered (the
\* source may lag the remote).
WaitOk ==
    /\ pc = "select"
    /\ last_block_id = None
    /\ last_block_id' = source_head
    /\ event' = "wait_ok"
    /\ UNCHANGED <<pc, current_seqno>>
    /\ UNCHANGED <<chanVars, handleVars, remoteVars, subs, finderVars>>

\* An Err arm that gives up: the error ends the loop.
WaitErrBreaks ==
    /\ pc = "select"
    /\ last_block_id = None
    /\ event' = "wait_err"
    /\ pc' = "done"
    /\ UNCHANGED <<last_block_id, current_seqno>>
    /\ UNCHANGED <<chanVars, handleVars, remoteVars, subs, finderVars>>

\* select! arm 2, Err: logged, nothing else.
WaitErr ==
    /\ pc = "select"
    /\ last_block_id = None
    /\ event' = "wait_err"
    /\ UNCHANGED <<pc, last_block_id, current_seqno>>
    /\ UNCHANGED <<chanVars, handleVars, remoteVars, subs, finderVars>>

\* A round that never passes the previous seqno on as a hint.
FindFirstBlockStartNoHint ==
    /\ pc = "select"
    /\ last_block_id # None
    /\ FinderBegin(last_block_id, None, None)
    /\ UNCHANGED <<actorVars, chanVars, handleVars, remoteVars, subs>>

\* select! arm 3: the round's future is created and first polled. The arm's
\* only precondition is `if last_block_id.is_some()`: the select! is not biased,
\* so a cancelled token does not keep the arm from being polled first; the
\* lookup it issues is then dropped by the cancelled arm of the same poll.
FindFirstBlockStart ==
    /\ pc = "select"
    /\ last_block_id # None
    /\ FinderBegin(last_block_id,
                   current_seqno,
                   IF current_seqno = None THEN None ELSE current_seqno + HintWindow)
    /\ UNCHANGED <<actorVars, chanVars, handleVars, remoteVars, subs>>

\* select! arm 3, Ok(block): remember the seqno, publish, then sleep; the
\* unwrap panics the task when send finds no receiver. The channel's version
\* counter is followed for MaxPubs sends.
RoundOk ==
    /\ pc = "select"
    /\ f_phase = "ok"
    /\ current_seqno' = f_result
    /\ last_ok' = f_result
    /\ prev_ok' = last_ok
    /\ IF ReceiverCount = 0
         THEN /\ pc' = "panicked"
              /\ event' = "panic"
              /\ UNCHANGED <<chan_value, chan_version, npub>>
         ELSE /\ npub < MaxPubs
              /\ pc' = "sleep"
              /\ event' = "round_ok"
              /\ chan_value' = WatchSendValue(chan_value, f_result)
              /\ chan_version' = WatchSendVersion(chan_version)
              /\ npub' = npub + 1
    /\ FinderReset
    /\ UNCHANGED <<last_block_id, handleVars, remoteVars, subs>>

\* An Err arm that tells the subscribers by clearing the published value.
RoundErrClears ==
    /\ pc = "select"
    /\ f_phase = "err"
    /\ event' = "round_err"
    /\ chan_value' = None
    /\ FinderReset
    /\ UNCHANGED <<pc, last_block_id, current_seqno>>
    /\ UNCHANGED <<chan_version, last_ok, prev_ok, npub, handleVars, remoteVars, subs>>

\* An Err arm that also cools down before the next round.
RoundErrSleeps ==
    /\ pc = "select"
    /\ f_phase = "err"
    /\ event' = "round_err"
    /\ pc' = "sleep"
    /\ FinderReset
    /\ UNCHANGED <<last_block_id, current_seqno>>
    /\ UNCHANGED <<chanVars, handleVars, remoteVars, subs>>

\* select! arm 3, Err: logged, the loop goes round at once.
RoundErr ==
    /\ pc = "select"
    /\ f_phase = "err"
    /\ event' = "round_err"
    /\ FinderReset
    /\ UNCHANGED <<pc, last_block_id, current_seqno>>
    /\ UNCHANGED <<chanVars, handleVars, remoteVars, subs>>

\* The 30-second sleep inside the Ok arm ends; the loop goes round.
SleepEnd ==
    /\ pc = "sleep"
    /\ pc' = "select"
    /\ UNCHANGED <<last_block_id, current_seqno, event>>
    /\ UNCHANGED <<chanVars, handleVars, remoteVars, subs, finderVars>>

\* ------------------------------------------ handle (MasterchainFirstBlockTracker)

\* Drop of the handle, first field: the receiver.
DropReceiver ==
    /\ receiver
    /\ receiver' = FALSE
    /\ UNCHANGED <<cancellation_token, actorVars, chanVars, remoteVars, subs, finderVars>>

\* Drop of the handle, second field: the DropGuard cancels the token.
DropGuard ==
    /\ ~receiver
    /\ ~cancellation_token
    /\ cancellation_token' = TRUE
    /\ UNCHANGED <<receiver, actorVars, chanVars, remoteVars, subs, finderVars>>

\* receiver(): a clone of the handle's receiver, which has seen version 0.
Subscribe(i) ==
    /\ receiver
    /\ subs[i] = None
    /\ subs' = [subs EXCEPT ![i] = 0]
    /\ UNCHANGED <<actorVars, chanVars, handleVars, remoteVars, finderVars>>

\* A subscriber's changed().await returns: it has now seen the current version.
SubChanged(i) ==
    /\ HasChanged(i)
    /\ subs' = [subs EXCEPT ![i] = chan_version]
    /\ UNCHANGED <<actorVars, chanVars, handleVars, remoteVars, finderVars>>

\* A subscriber drops its receiver.
SubDrop(i) ==
    /\ subs[i] # None
    /\ subs' = [subs EXCEPT ![i] = None]
    /\ UNCHANGED <<actorVars, chanVars, handleVars, remoteVars, finderVars>>

\* ------------------------------------------------------------------ remote

\* The server prunes: the boundary moves forward.
Prune ==
    /\ \E b \in Boundaries : b > boundary /\ b <= head /\ boundary' = b
    /\ UNCHANGED <<head, source_head, actorVars, chanVars, handleVars, subs, finderVars>>

\* A remote consistency violation: an older block is served again.
Regress ==
    /\ \E b \in Boundaries : b < boundary /\ boundary' = b
    /\ UNCHANGED <<head, source_head, actorVars, chanVars, handleVars, subs, finderVars>>

\* The chain grows.
HeadAdvance ==
    /\ \E h \in Heads : h > head /\ head' = h
    /\ UNCHANGED <<source_head, boundary, actorVars, chanVars, handleVars, subs, finderVars>>

\* The chain-head source catches up with the remote.
SourceNotify ==
    /\ \E h \in Heads : h > source_head /\ h <= head /\ source_head' = h
    /\ UNCHANGED <<head, boundary, actorVars, chanVars, handleVars, subs, finderVars>>

\* ----------------------------------------------------------- specification

Init ==
    /\ pc = "select"
    /\ last_block_id = None
    /\ current_seqno = None
    /\ chan_value = None
    /\ chan_version = 0
    /\ receiver = TRUE
    /\ cancellation_token = FALSE
    /\ subs = [i \in Subs |-> None]
    /\ head \in Heads
    /\ source_head \in Heads
    /\ source_head <= head
    /\ boundary \in Boundaries
    /\ boundary <= head
    /\ f_phase = "idle"
    /\ f_low = None /\ f_high = None
    /\ lo = 0 /\ hi = 0 /\ tries = 0
    /\ f_result = None
    /\ event = "init"
    /\ last_ok = None
    /\ prev_ok = None
    /\ npub = 0

Next ==
    \/ Cancelled
    \/ WaitOk
    \/ WaitErr
    \/ FindFirstBlockStart
    \/ ProbeHint
    \/ ProbeMid
    \/ FetchFinal
    \/ ProbeTransient
    \/ RoundOk
    \/ RoundErr
    \/ SleepEnd
    \/ DropReceiver
    \/ DropGuard
    \/ \E i \in Subs : Subscribe(i)
    \/ \E i \in Subs : SubChanged(i)
    \/ \E i \in Subs : SubDrop(i)
    \/ Prune
    \/ Regress
    \/ HeadAdvance
    \/ SourceNotify

Spec == Init /\ [][Next]_vars

\* The scheduler polls a runnable task, the sleep's timer fires, and the drop
\* of the handle runs to its end; the remote and the consumers owe nothing.
FairSpec ==
    /\ Init
    /\ [][Next]_vars
    /\ WF_vars(Cancelled)
    /\ WF_vars(SleepEnd)
    /\ WF_vars(DropGuard)

\* --------------------------------------------- the finder as a pure function

\* One call of the finder against a remote that stands still: the anchor, the
\* remote's boundary and head, and the hint are the inputs.
FinderInit ==
    /\ pc = "select"
    /\ last_block_id \in 0..MaxAnchor
    /\ current_seqno = None
    /\ chan_value = None
    /\ chan_version = 0
    /\ receiver = TRUE
    /\ cancellation_token = FALSE
    /\ subs = [i \in Subs |-> None]
    /\ head \in last_block_id..(MaxAnchor + 1)
    /\ source_head = last_block_id
    /\ boundary \in 0..last_block_id
    /\ f_phase = "idle"
    /\ \/ f_low = None /\ f_high = None
       \/ f_low \in 0..MaxAnchor /\ f_high \in f_low..(MaxAnchor + 2)
    /\ lo = 0 /\ hi = 0 /\ tries = 0
    /\ f_result = None
    /\ event = "init"
    /\ last_ok = None
    /\ prev_ok = None
    /\ npub = 0

FinderCall ==
    /\ pc = "select"
    /\ FinderBegin(last_block_id, f_low, f_high)
    /\ UNCHANGED <<actorVars, chanVars, handleVars, remoteVars, subs>>

FinderNext ==
    \/ FinderCall
    \/ ProbeHint
    \/ ProbeMid
    \/ FetchFinal

FinderSpec == FinderInit /\ [][FinderNext]_vars

\* The same call with probes that may fail transiently.
FinderFaultNext ==
    \/ FinderCall
    \/ ProbeHint
    \/ ProbeMid
    \/ FetchFinal
    \/ ProbeTransient

FinderFaultSpec == FinderInit /\ [][FinderFaultNext]_vars

\* ------------------------------------------------------------------ claims

\* The channel exists while the actor holds the sender or a receiver is alive.
ChannelAlive == pc \in {"select", "sleep"} \/ ReceiverCount > 0

\* C1: the published headers have non-decreasing seqno in publication order:
\* every publication over a present value carries a seqno at least as large.
C1_PublishedSeqnoNonDecreasing ==
    [][(chan_version' # chan_version /\ chan_value # None)
          => chan_value' >= chan_value]_vars

\* C2: once the cancellation token is cancelled the published value never
\* changes again and no receiver is notified again.
C2_NoPublicationAfterCancellation ==
    [][cancellation_token
          => (chan_value' = chan_value /\ chan_version' = chan_version)]_vars

\* C3: once the handle's drop has cancelled the token, the actor eventually
\* reaches the Cancelled state (it broke out of the loop on the token).
C3_CancellationLeadsToCancelled ==
    cancellation_token ~> (pc = "done")

\* C4: a round that succeeds with a header whose seqno is lower than the
\* published one is discarded: the published value and the remembered seqno
\* stay as they were.
C4_StaleResultDiscarded ==
    [][(/\ pc = "select" /\ f_phase = "ok" /\ f_phase' = "idle" /\ pc' # "done"
        /\ chan_value # None /\ f_result < chan_value)
          => (chan_value' = chan_value /\ current_seqno' = current_seqno)]_vars

\* A step that starts a discovery round: the finder's future is created.
RoundStarts == pc = "select" /\ f_phase = "idle" /\ f_phase' # "idle"

\* C5: once the token is cancelled, the actor's next transition out of Idle or
\* out of the select is the one to Cancelled: the cooldown is not waited for,
\* no other ready event is taken first and no discovery round is started.
C5_CancellationTakenFirst ==
    /\ [][(cancellation_token /\ pc \in {"select", "sleep"} /\ pc' # pc)
            => pc' = "done"]_vars
    /\ [][cancellation_token => ~RoundStarts]_vars

\* C6: the published value is absent exactly when no round has completed
\* successfully, otherwise it is the header of the latest successful round; it
\* is never an error and never reverts from present to absent.
C6_PublishedIsLatestSuccessfulRound ==
    /\ [](ChannelAlive =>
            /\ chan_value = last_ok
            /\ (chan_value = None <=> npub = 0)
            /\ (chan_value = None \/ chan_value >= 0))
    /\ [][chan_value # None => chan_value' # None]_vars

\* A failed round after a successful one: the first header is still published.
C6_Witness ==
    /\ event = "round_err"
    /\ chan_value # None
    /\ chan_value = last_ok
    /\ ChannelAlive

\* C7: the actor task stops only by observing the cancellation token: there
\* is no other stopped or crashed state.
C7_StopsOnlyByCancellation ==
    pc \notin {"select", "sleep"}
        => (pc = "done" /\ cancellation_token /\ event = "cancelled")

\* C8: subscriptions coexist; every publication marks every live subscription
\* as changed whatever the others have consumed, and every live subscription
\* reads the latest published header once one is published.
C8_SubscriptionsSeeLatest ==
    /\ [](\A i \in Subs : (subs[i] # None /\ npub >= 1) => Borrow(i) = last_ok)
    /\ [][npub' # npub => \A i \in Subs : subs[i] # None => HasChanged(i)']_vars

\* Two subscriptions after two publications, one that consumed the first
\* update only and one that consumed none (or was created late).
C8_Witness ==
    /\ npub = 2
    /\ \E i, j \in Subs :
          /\ i # j
          /\ subs[i] = 1
          /\ subs[j] = 0
          /\ HasChanged(i) /\ HasChanged(j)
          /\ Borrow(i) = last_ok /\ Borrow(j) = last_ok

\* C9: with no hint and no transient failure the finder returns the header at
\* the boundary B, for every anchor A and every 0 <= B <= A.
C9_NoHintReturnsBoundary ==
    (f_high = None /\ f_phase \in {"ok", "err"})
        => (f_phase = "ok" /\ f_result = boundary)

\* C10: with any hint window the finder returns the header at the boundary B,
\* whether B lies inside the window, below low or above high.
C10_HintReturnsBoundary ==
    (f_high # None /\ f_phase \in {"ok", "err"})
        => (f_phase = "ok" /\ f_result = boundary)

\* A step of the finder that is a transient failure of the probe in flight.
TransientStep ==
    \/ tries' = tries + 1
    \/ tries = MaxTransient - 1 /\ f_phase' = "err"

\* C11: a Pruned answer at a midpoint probe makes the midpoint the new lo and
\* the round goes on without an error; a probe gives up with an error only at
\* its third consecutive Transient answer, earlier ones are retried, and lo
\* and hi then hold what they held before that probe.
C11_PrunedNarrowsTransientAborts ==
    /\ [][(f_phase = "search" /\ Fetch(Midpoint(lo, hi)) = "pruned" /\ ~TransientStep)
            => (/\ lo' = Midpoint(lo, hi)
                /\ hi' = hi
                /\ f_phase' \in {"search", "final"})]_vars
    /\ [][(f_phase \in {"hint", "search"} /\ f_phase' = "err")
            => (tries = MaxTransient - 1 /\ lo' = lo /\ hi' = hi)]_vars
    /\ [][tries' = tries + 1
            => (tries + 1 < MaxTransient /\ f_phase' = f_phase /\ lo' = lo /\ hi' = hi)]_vars

\* A round without hint whose lo was raised by a pruned midpoint and that then
\* gave up on the next midpoint probe.
C11_Witness ==
    /\ f_phase = "err"
    /\ f_high = None
    /\ lo > GenesisSeqno
    /\ hi - lo > 1

\* C12: a round that starts after a cooldown takes as anchor the chain head
\* the source supplies when the sleep has ended, also when that head advanced
\* during the sleep.
C12_AnchorIsLatestHead ==
    /\ [][(pc = "sleep" /\ pc' = "select") => last_block_id' = source_head]_vars
    /\ [][(RoundStarts /\ current_seqno # None) => hi' = last_block_id]_vars

\* C13: a round started before any round has succeeded passes no hint; a round
\* started after a success passes (p, p + 32), p being the seqno of the header
\* published by the latest successful round.
C13_HintFromLastSuccess ==
    [][RoundStarts =>
         IF last_ok = None
           THEN f_low' = None /\ f_high' = None
           ELSE /\ last_ok = chan_value
                /\ f_low' = last_ok
                /\ f_high' = last_ok + HintWindow]_vars

\* A round in flight after two publications of different headers, started
\* with the window of the second one.
C13_Witness ==
    /\ f_phase = "hint"
    /\ npub = 2
    /\ prev_ok # None
    /\ prev_ok # last_ok
    /\ chan_value = last_ok
    /\ f_low = last_ok
    /\ f_high = last_ok + HintWindow

\* C14: a failed round changes nothing: the published value, the remembered
\* seqno and the known chain head stay, and the actor is back in the select
\* with the discovery arm open, with no cooldown.
C14_FailedRoundChangesNothing ==
    [][(pc = "select" /\ f_phase = "err" /\ f_phase' = "idle" /\ pc' # "done")
         => (/\ chan_value' = chan_value
             /\ chan_version' = chan_version
             /\ current_seqno' = current_seqno
             /\ last_block_id' = last_block_id
             /\ last_block_id' # None
             /\ pc' = "select")]_vars

\* The round after a failed round is in flight, with the hint of the earlier
\* publication, and no successful round lies between.
C14_Witness ==
    /\ event = "round_err"
    /\ pc = "select"
    /\ f_phase \in {"hint", "search", "final"}
    /\ current_seqno # None
    /\ f_low = current_seqno

\* A step in which the Ok arm of the discovery round runs.
OkArmRuns == pc = "select" /\ f_phase = "ok" /\ f_phase' = "idle" /\ pc' # "done"

\* C15: every successful round publishes its header and then enters Idle;
\* publications happen nowhere else, and during Idle no round is started and
\* nothing is published, so a cooldown lies between any two publications.
C15_SuccessPublishesThenIdles ==
    /\ [][OkArmRuns => (/\ npub' = npub + 1
                        /\ chan_value' = f_result
                        /\ pc' = "sleep")]_vars
    /\ [][npub' # npub => (OkArmRuns /\ pc' = "sleep")]_vars
    /\ [][pc = "sleep" => (f_phase' = "idle" /\ npub' = npub)]_vars

\* The chain-head wait is one of the futures the select! polls.
WaitActive == ENABLED WaitOk \/ ENABLED WaitErr

\* The discovery round's future exists.
RoundActive == f_phase # "idle"

\* C16: the chain-head wait and the discovery round are never active together:
\* the wait only while no chain head is known, the round only while one is.
C16_WaitAndRoundExclusive ==
    /\ ~(WaitActive /\ RoundActive)
    /\ (WaitActive => last_block_id = None)
    /\ (RoundActive => (last_block_id # None /\ pc = "select"))

\* A round is searching and the wait arm is closed.
C16_Witness ==
    /\ f_phase = "search"
    /\ last_block_id # None
    /\ ~WaitActive
    /\ ~cancellation_token

\* C17: while no chain head is known nothing is published and no round is
\* started; a failed wait leaves the actor waiting, however many fail in a
\* row; the first successful wait makes the supplied head the known head, and
\* the round that follows takes it as anchor.
C17_FailedWaitKeepsWaiting ==
    /\ [](last_block_id = None =>
            (/\ chan_value = None /\ npub = 0
             /\ current_seqno = None
             /\ ~RoundActive))
    /\ [][(last_block_id = None /\ event' = "wait_err")
            => (/\ pc' = "select"
                /\ last_block_id' = None
                /\ ~RoundActive')]_vars
    /\ [][(last_block_id = None /\ last_block_id' # None)
            => (last_block_id' = source_head /\ pc' = "select")]_vars
    /\ [][RoundStarts => hi' = last_block_id]_vars

\* The actor after a failed wait: still waiting, nothing published.
C17_Witness ==
    /\ event = "wait_err"
    /\ pc = "select"
    /\ last_block_id = None
    /\ WaitActive
    /\ chan_value = None

\* C18: whenever the Ok arm publishes, a receiver of the channel is alive, so
\* the unwrap on send never panics the task.
C18_PublicationNeverFails ==
    [][OkArmRuns => (ReceiverCount >= 1 /\ pc' # "panicked")]_vars

\* The actor task is running, so its locals exist.
ActorAlive == pc \in {"select", "sleep"}

\* C19: the remembered seqno is absent exactly when nothing is published and
\* otherwise is the seqno of the published header, at every point where the
\* task can be suspended.
C19_RememberedSeqnoIsPublished ==
    ActorAlive =>
        /\ current_seqno = chan_value
        /\ (current_seqno = None <=> npub = 0)

\* The actor sleeps after its second publication.
C19_Witness ==
    /\ pc = "sleep"
    /\ chan_version = 2
    /\ current_seqno # None
    /\ current_seqno = chan_value

====
